---- MODULE Spec2Model ----
(***************************************************************************)
(* Model of the launchmango backend (src/unnamed/part_000, lines 1-445,    *)
(* the latest revision of the HTTP service): the storage root as a         *)
(* filesystem, the Tree Builder (loadRepoFiles / setDeepNode) and the      *)
(* request handlers.  Strings are sequences of one-character strings so    *)
(* that strings.Contains, strings.Split, strings.Join, fmt.Sprintf and the *)
(* regular expression are computed, not assumed.                           *)
(***************************************************************************)
EXTENDS Integers, Sequences, FiniteSets, TLC

VARIABLES fs, resp, run

vars == <<fs, resp, run>>

(***************************************************************************)
(* Strings                                                                 *)
(***************************************************************************)

\* The characters used, in byte order (sort.Strings compares bytes).
Alphabet ==
  <<"-", ".", "/", "0", "1", "2", "3", "4", "5", "6", "7", "8", "9",
    "A", "D", "E", "M", "R",
    "a", "b", "c", "d", "e", "f", "g", "h", "i", "l", "m", "n", "o", "p",
    "r", "s", "t", "u", "x">>

CharRank(c) == CHOOSE i \in 1..Len(Alphabet) : Alphabet[i] = c

\* byte-wise lexical order of two strings
RECURSIVE LexLess(_, _)
LexLess(s, t) ==
  IF t = <<>> THEN FALSE
  ELSE IF s = <<>> THEN TRUE
  ELSE IF Head(s) = Head(t) THEN LexLess(Tail(s), Tail(t))
  ELSE CharRank(Head(s)) < CharRank(Head(t))

\* strings.Contains(s, sub)
Contains(s, sub) ==
  \E i \in 0..(Len(s) - Len(sub)) :
    \A j \in 1..Len(sub) : s[i + j] = sub[j]

\* strings.Split(s, sep) for a one-character separator
RECURSIVE SplitAcc(_, _, _)
SplitAcc(s, sep, cur) ==
  IF s = <<>> THEN <<cur>>
  ELSE IF Head(s) = sep THEN <<cur>> \o SplitAcc(Tail(s), sep, <<>>)
  ELSE SplitAcc(Tail(s), sep, Append(cur, Head(s)))

Split(s, sep) == SplitAcc(s, sep, <<>>)

\* strings.Join(parts, sep)
RECURSIVE Join(_, _)
Join(parts, sep) ==
  IF parts = <<>> THEN <<>>
  ELSE IF Len(parts) = 1 THEN parts[1]
  ELSE parts[1] \o <<sep>> \o Join(Tail(parts), sep)

\* the sorted sequence of a finite set of strings
RECURSIVE SortNames(_)
SortNames(S) ==
  IF S = {} THEN <<>>
  ELSE LET m == CHOOSE x \in S : \A y \in S \ {x} : LexLess(x, y)
       IN  <<m>> \o SortNames(S \ {m})

IsPrefix(p, q) == Len(p) <= Len(q) /\ SubSeq(q, 1, Len(p)) = p

\* a sequence without its last element (parts[:len(parts)-1])
Front(s) == SubSeq(s, 1, Len(s) - 1)

(***************************************************************************)
(* Names                                                                   *)
(***************************************************************************)

dotGit == <<".", "g", "i", "t">>
nGitignore == <<".", "g", "i", "t", "i", "g", "n", "o", "r", "e">>
nHead == <<"h", "e", "a", "d">>
nA == <<"a">>
nC == <<"c">>
nD == <<"d">>
nE == <<"e">>
nX == <<"x">>
nSub == <<"s", "u", "b">>
nIndex == <<"i", "n", "d", "e", "x", ".", "h", "t", "m", "l">>
nReadme == <<"R", "E", "A", "D", "M", "E", ".", "m", "d">>
nStatic == <<"s", "t", "a", "t", "i", "c">>
\* a working copy that was cloned by hand into a directory ending in .git
nBare == <<"a", ".", "g", "i", "t">>

HexLen == 32
HexChars == {"0", "1", "2", "3", "4", "5", "6", "7", "8", "9",
             "a", "b", "c", "d", "e", "f"}

Id1 == [i \in 1..HexLen |-> IF i % 2 = 1 THEN "0" ELSE "a"]
Id2 == [i \in 1..HexLen |-> IF i % 2 = 1 THEN "f" ELSE "3"]
\* a directory name that contains 32 hex characters but is longer
LongHex == <<"x", "-">> \o Id2

Url1 == <<"h", "/", "a", ".", "g", "i", "t">>
Url2 == <<"h", "/", "b">>

(***************************************************************************)
(* The filesystem below the storage root (the working directory of the     *)
(* process): a function from paths (sequences of names) to entries.        *)
(* r / w are the permission bits of the owner the server runs as; for a    *)
(* directory r stands for both listing and searching it.  origin is the    *)
(* remote.origin.url recorded in a .git directory.                         *)
(***************************************************************************)

File(data, w) ==
  [kind |-> "file", data |-> data, r |-> TRUE, w |-> w, origin |-> <<>>]

Dir(r) ==
  [kind |-> "dir", data |-> <<>>, r |-> r, w |-> TRUE, origin |-> <<>>]

GitDir(url) ==
  [kind |-> "dir", data |-> <<>>, r |-> TRUE, w |-> TRUE, origin |-> url]

\* os.FileInfo.Size(): the length of a file; for a directory whatever the
\* filesystem reports (one block here)
StatSize(e) == IF e.kind = "file" THEN Len(e.data) ELSE 4096

\* the result of resolving the path segs: "ok" or the errno of the first
\* component that fails; forRead adds the permission check of open(O_RDONLY)
RECURSIVE ResolveFrom(_, _, _, _)
ResolveFrom(f, segs, i, forRead) ==
  LET p == SubSeq(segs, 1, i) IN
  IF p \notin DOMAIN f THEN "ENOENT"
  ELSE IF i = Len(segs)
       THEN IF forRead /\ ~f[p].r THEN "EACCES" ELSE "ok"
  ELSE IF f[p].kind = "file" THEN "ENOTDIR"
  ELSE IF ~f[p].r THEN "EACCES"
  ELSE ResolveFrom(f, segs, i + 1, forRead)

\* os.Stat / os.Lstat
StatErr(f, segs) == ResolveFrom(f, segs, 1, FALSE)

\* os.Open
OpenErr(f, segs) == ResolveFrom(f, segs, 1, TRUE)

\* os.IsNotExist(err)
IsNotExist(err) == err = "ENOENT"

\* the names in directory p
ChildNames(f, p) ==
  {q[Len(q)] : q \in {q \in DOMAIN f : Len(q) = Len(p) + 1 /\ IsPrefix(p, q)}}

\* a working copy l (relative paths to entries) placed at directory name
Install(f, name, l) ==
  [q \in DOMAIN f \cup {<<name>>} \cup {<<name>> \o p : p \in DOMAIN l} |->
     IF q = <<name>> THEN Dir(TRUE)
     ELSE IF Len(q) > 1 /\ q[1] = name /\ Tail(q) \in DOMAIN l THEN l[Tail(q)]
     ELSE f[q]]

Restrict(f, S) == [q \in S |-> f[q]]

(***************************************************************************)
(* Tree Builder.  A tree of FileNodes is a function from positions to      *)
(* nodes: the root (first) is at position <<>> and the node stored in      *)
(* b.Children[k] of the node b at position pos is at Append(pos, k).  The  *)
(* empty function NilTree is the nil *FileNode.  A node records in src the *)
(* path, relative to the repository directory, of the entry it was built   *)
(* from (history only, not a field of FileNode).                           *)
(***************************************************************************)

NilTree == <<>>

\* _, ok := b.Children[key]
HasChild(tree, pos, key) == Append(pos, key) \in DOMAIN tree

\* b.Children[node.Name] = node, for the node b at position pos: the node
\* stored under that key before, and all below it, is no longer reachable
PutChild(tree, pos, node) ==
  LET q == Append(pos, node.Name)
      keep == {x \in DOMAIN tree : ~IsPrefix(q, x)}
  IN  [x \in keep \cup {q} |-> IF x = q THEN node ELSE tree[x]]

RECURSIVE setDeepNode(_, _, _, _)
setDeepNode(tree, b, keys, f) ==
  IF HasChild(tree, b, keys[1]) /\ Len(keys) > 1
  THEN setDeepNode(tree, Append(b, keys[1]), Tail(keys), f)
  ELSE IF Len(keys) = 1 THEN PutChild(tree, b, f)
  ELSE tree

\* a Skip decision that only recognises the metadata directory itself
IsSkipped_TopOnly(path) ==
  LET parts == Split(path, "/") IN parts[Len(parts)] = dotGit

\* the Skip decision of the visit function
IsSkipped(path) == Contains(path, dotGit)

\* an address built from the base name instead of the relative path
FileURL_BaseName(id, path) ==
  <<"/">> \o <<"r", "e", "p", "o", "s", "i", "t", "o", "r", "i", "e", "s">>
  \o <<"/">> \o id \o <<"/">> \o <<"f", "i", "l", "e", "s">> \o <<"/">>
  \o Split(path, "/")[Len(Split(path, "/"))]

\* fmt.Sprintf("/repositories/%s/files/%s", repo.ID,
\*             strings.Join(strings.Split(path, "/")[1:], "/"))
FileURL(id, path) ==
  <<"/">> \o <<"r", "e", "p", "o", "s", "i", "t", "o", "r", "i", "e", "s">>
  \o <<"/">> \o id \o <<"/">> \o <<"f", "i", "l", "e", "s">> \o <<"/">>
  \o Join(Tail(Split(path, "/")), "/")

\* one call of the visit function for the visit v, with first = tree
visitFunc(tree, id, v) ==
  IF IsSkipped(v.path) THEN tree
  ELSE
    LET fileType == IF v.ent.kind = "dir" THEN "dir" ELSE "file"
        node == [Type |-> fileType, Name |-> v.name, Size |-> StatSize(v.ent),
                 URL |-> IF fileType = "file" /\ tree # NilTree
                         THEN FileURL(id, v.path) ELSE <<>>,
                 src |-> v.src]
        parentPathParts == Tail(Split(v.path, "/"))
    IN  IF tree = NilTree THEN [x \in {<<>>} |-> node]
        ELSE IF Len(parentPathParts) <= 1 THEN PutChild(tree, <<>>, node)
        ELSE setDeepNode(tree, <<>>, Front(parentPathParts), node)

\* filepath.Walk below the entry at p, whose path string is path: the entry
\* itself, then, for a directory that can be read, its entries in lexical
\* order.  A directory that cannot be read is reported to the visit function
\* with the error, which the visit function ignores.
RECURSIVE WalkEntry(_, _, _)
RECURSIVE WalkNames(_, _, _, _)
WalkEntry(f, p, path) ==
  LET v == [path |-> path, name |-> p[Len(p)], ent |-> f[p], src |-> Tail(p)]
  IN  IF f[p].kind = "dir" /\ f[p].r
      THEN <<v>> \o WalkNames(f, p, path, SortNames(ChildNames(f, p)))
      ELSE <<v>>

WalkNames(f, p, path, names) ==
  IF names = <<>> THEN <<>>
  ELSE WalkEntry(f, Append(p, Head(names)), path \o <<"/">> \o Head(names))
       \o WalkNames(f, p, path, Tail(names))

RECURSIVE VisitAll(_, _, _)
VisitAll(tree, id, visits) ==
  IF visits = <<>> THEN tree
  ELSE VisitAll(visitFunc(tree, id, Head(visits)), id, Tail(visits))

\* loadRepoFiles(repo) for repo.ID = id: the value left in repo.Files, and
\* whether the visit function dereferenced the nil FileInfo that Walk passes
\* when the root cannot be stat'ed
loadRepoFiles(f, id) ==
  IF StatErr(f, <<id>>) # "ok"
  THEN [panic |-> ~IsSkipped(id), files |-> NilTree]
  ELSE [panic |-> FALSE, files |-> VisitAll(NilTree, id, WalkEntry(f, <<id>>, id))]

(***************************************************************************)
(* Helpers of the handlers                                                 *)
(***************************************************************************)

\* md5String on the URLs of the model: the digest is a fixed 32 character
\* lowercase hexadecimal string per URL, distinct URLs giving distinct ones
md5String(u) == IF u = Url1 THEN Id1 ELSE Id2

\* fileExists(filename): false only when os.Stat reports non-existence
fileExists(f, filename) == ~IsNotExist(StatErr(f, <<filename>>))

\* regexpMD5.MatchString(name) for the pattern [0-9a-f]{32}
regexpMD5(name) ==
  \E i \in 0..(Len(name) - HexLen) :
    \A j \in 1..HexLen : name[i + j] \in HexChars

\* gitRemote(repoPath): git config --get remote.origin.url run in repoPath.
\* It fails when repoPath is not a directory or holds no .git directory
\* (the storage root itself is taken not to lie in a git working copy).
gitRemoteOk(f, id) ==
  /\ <<id>> \in DOMAIN f /\ f[<<id>>].kind = "dir"
  /\ <<id, dotGit>> \in DOMAIN f /\ f[<<id, dotGit>>].kind = "dir"
  /\ f[<<id, dotGit>>].origin # <<>>

gitRemote(f, id) == f[<<id, dotGit>>].origin

\* strings.TrimSuffix(s, suffix)
TrimSuffix(s, suffix) ==
  IF Len(s) >= Len(suffix)
     /\ SubSeq(s, Len(s) - Len(suffix) + 1, Len(s)) = suffix
  THEN SubSeq(s, 1, Len(s) - Len(suffix))
  ELSE s

\* repoName(repoPath), given the remote
repoName(remote) ==
  LET parts == Split(remote, "/")
      last == parts[Len(parts)]
  IN  TrimSuffix(last, dotGit)

\* os.RemoveAll(id): what is left of the filesystem.  A directory that
\* cannot be read and is not empty cannot be emptied, so it, what is below
\* it and the directories above it stay (and RemoveAll returns an error).
Stuck(f, id) ==
  {d \in DOMAIN f : /\ IsPrefix(<<id>>, d) /\ f[d].kind = "dir" /\ ~f[d].r
                    /\ ChildNames(f, d) # {}}

RemoveAll(f, id) ==
  LET keep == {q \in DOMAIN f :
                 \/ ~IsPrefix(<<id>>, q)
                 \/ \E d \in Stuck(f, id) : IsPrefix(d, q) \/ IsPrefix(q, d)}
  IN  Restrict(f, keep)

\* ioutil.WriteFile(filePath, body, mode) on an existing entry: the open
\* with O_WRONLY|O_TRUNC fails on a directory and on a file without write
\* permission, and the mode of an existing file is not changed
WriteFileOk(f, segs) == f[segs].kind = "file" /\ f[segs].w

WriteFile(f, segs, body) ==
  IF WriteFileOk(f, segs)
  THEN [f EXCEPT ![segs] = [@ EXCEPT !.data = body]]
  ELSE f

\* the Repository value rendered as JSON
Repository(id, name, url, files) ==
  [ID |-> id, Name |-> name, URL |-> url, Files |-> files]

\* What one request did: the request (op, id, path, url, body), the status
\* and error message written by handler.ServeHTTP, whether the clone
\* provider was run, and the response body (repos: the Repository values;
\* data: raw bytes).
Response(op) ==
  [op |-> op, id |-> <<>>, path |-> <<>>, url |-> <<>>, body |-> <<>>,
   status |-> 0, msg |-> "", cloned |-> FALSE, repos |-> {}, data |-> <<>>]

errNotFound(r) == [r EXCEPT !.status = 404, !.msg = "not found"]

(***************************************************************************)
(* Working copies                                                          *)
(***************************************************************************)

\* the entries a working copy cloned from url may hold
Universe(url, subR, aW) ==
     (<<dotGit>> :> GitDir(url))
  @@ (<<dotGit, nHead>> :> File(<<1>>, TRUE))
  @@ (<<nGitignore>> :> File(<<1, 1, 1>>, TRUE))
  @@ (<<nA>> :> File(<<1, 0>>, aW))
  @@ (<<nSub>> :> Dir(subR))
  @@ (<<nSub, nA>> :> File(<<0>>, TRUE))
  @@ (<<nSub, nC>> :> Dir(TRUE))
  @@ (<<nSub, nC, nD>> :> File(<<0, 0, 0, 0>>, TRUE))
  @@ (<<nSub, nC, nE>> :> Dir(TRUE))
  @@ (<<nSub, nC, nE, nX>> :> File(<<>>, TRUE))

\* a set of relative paths that holds the directory of each of its members
Closed(S) == \A q \in S : Len(q) > 1 => Front(q) \in S

\* every working copy over the universe (a clone always has its .git)
AllLayouts(url) ==
  UNION {{Restrict(Universe(url, subR, aW), S) :
            S \in {T \in SUBSET DOMAIN Universe(url, subR, aW) :
                     Closed(T) /\ <<dotGit>> \in T}} :
         subR \in BOOLEAN, aW \in BOOLEAN}

\* the working copies used where the whole service is explored
SomeLayouts(url) ==
  IF url = Url1
  THEN {Restrict(Universe(url, TRUE, TRUE),
                 {<<dotGit>>, <<nA>>, <<nSub>>, <<nSub, nA>>}),
        Restrict(Universe(url, TRUE, FALSE),
                 {<<dotGit>>, <<dotGit, nHead>>, <<nA>>})}
  ELSE {Restrict(Universe(url, TRUE, FALSE), {<<dotGit>>, <<nA>>})}

\* the storage root without repositories: the files the server itself
\* serves, a git working copy in a directory with a longer name and one in
\* a directory whose name ends in .git
BaseFS ==
  Install(Install(  (<<nIndex>> :> File(<<1>>, TRUE))
                 @@ (<<nReadme>> :> File(<<0>>, TRUE))
                 @@ (<<nStatic>> :> Dir(TRUE))
                 @@ (<<nStatic, nA>> :> File(<<1>>, TRUE)),
                 LongHex,
                 Restrict(Universe(Url2, TRUE, FALSE), {<<dotGit>>, <<nA>>})),
          nBare,
          Restrict(Universe(Url2, TRUE, FALSE), {<<dotGit>>, <<nA>>}))

(***************************************************************************)
(* Bounds and request inputs                                               *)
(***************************************************************************)

MaxBody == 1
Bytes == {7}
Bodies == UNION {[1..n -> Bytes] : n \in 0..MaxBody}

Urls == {Url1, Url2}
ReqIds == {Id1, Id2, nIndex, nStatic}
\* the ids and paths of the file requests
FileIds == {Id1, Id2, nIndex}
ReqPaths == {nA, nSub \o <<"/">> \o nA, nA \o <<"/">> \o nX, nX}

(***************************************************************************)
(* Handlers.  Each operator gives the response and the filesystem after    *)
(* the whole request, including the status handler.ServeHTTP writes: the   *)
(* status of an HTTPError, 500 for any other error and for a panic, and    *)
(* 200 (or the status the handler wrote) when the handler returns nil.     *)
(***************************************************************************)

\* a create that clones without looking for an existing directory
createRepo_NoExistCheck(f, okJson, u, cloneOk, l) ==
  LET r == [Response("create") EXCEPT !.url = u]
      id == md5String(u)
      f2 == Install(f, id, l)
      loaded == loadRepoFiles(f2, id)
  IN  IF ~okJson THEN [fs |-> f, resp |-> [r EXCEPT !.status = 400, !.msg = "bad json"]]
      ELSE IF u = <<>>
      THEN [fs |-> f, resp |-> [r EXCEPT !.status = 400, !.msg = "url is required"]]
      ELSE IF ~cloneOk
      THEN [fs |-> f, resp |-> [r EXCEPT !.id = id, !.status = 500, !.cloned = TRUE,
                                         !.msg = "Internal Server Error"]]
      ELSE [fs |-> f2,
            resp |-> [r EXCEPT !.id = id, !.status = 200, !.cloned = TRUE,
                               !.repos = {Repository(id, <<>>, u, loaded.files)}]]

createRepo(f, okJson, u, cloneOk, l) ==
  LET r == [Response("create") EXCEPT !.url = u]
      id == md5String(u)
      f2 == Install(f, id, l)
      loaded == loadRepoFiles(f2, id)
  IN  IF ~okJson THEN [fs |-> f, resp |-> [r EXCEPT !.status = 400, !.msg = "bad json"]]
      ELSE IF u = <<>>
      THEN [fs |-> f, resp |-> [r EXCEPT !.status = 400, !.msg = "url is required"]]
      ELSE IF fileExists(f, id)
      THEN [fs |-> f, resp |-> [r EXCEPT !.id = id, !.status = 400,
                                         !.msg = "repo already exists"]]
      ELSE IF ~cloneOk
      THEN [fs |-> f, resp |-> [r EXCEPT !.id = id, !.status = 500, !.cloned = TRUE,
                                         !.msg = "Internal Server Error"]]
      ELSE IF loaded.panic
      THEN [fs |-> f2, resp |-> [r EXCEPT !.id = id, !.status = 500, !.cloned = TRUE,
                                          !.msg = "Internal Server Error"]]
      ELSE [fs |-> f2,
            resp |-> [r EXCEPT !.id = id, !.status = 200, !.cloned = TRUE,
                               !.repos = {Repository(id, <<>>, u, loaded.files)}]]

\* the directories of the storage root listRepos keeps
Listed(f) ==
  {q[1] : q \in {q \in DOMAIN f : Len(q) = 1 /\ f[q].kind = "dir" /\ regexpMD5(q[1])}}

\* a listing that leaves out the directories whose remote cannot be read
listRepos_SkipFailed(f) ==
  LET r == Response("list")
      names == {n \in Listed(f) : gitRemoteOk(f, n) /\ ~loadRepoFiles(f, n).panic}
  IN  [fs |-> f,
       resp |-> [r EXCEPT !.status = 200,
                   !.repos = {Repository(n, repoName(gitRemote(f, n)),
                                         gitRemote(f, n),
                                         loadRepoFiles(f, n).files) : n \in names}]]

\* Readdir returns the entries in directory order, so the response is
\* taken as the set of its Repository values
listRepos(f) ==
  LET r == Response("list")
      names == Listed(f)
  IN  IF \E n \in names : ~gitRemoteOk(f, n) \/ loadRepoFiles(f, n).panic
      THEN [fs |-> f, resp |-> [r EXCEPT !.status = 500, !.msg = "Internal Server Error"]]
      ELSE [fs |-> f,
            resp |-> [r EXCEPT !.status = 200,
                        !.repos = {Repository(n, repoName(gitRemote(f, n)),
                                              gitRemote(f, n),
                                              loadRepoFiles(f, n).files) : n \in names}]]

getRepo(f, id) ==
  LET r == [Response("get") EXCEPT !.id = id]
      loaded == loadRepoFiles(f, id)
  IN  IF ~fileExists(f, id) THEN [fs |-> f, resp |-> errNotFound(r)]
      ELSE IF ~gitRemoteOk(f, id) \/ loaded.panic
      THEN [fs |-> f, resp |-> [r EXCEPT !.status = 500, !.msg = "Internal Server Error"]]
      ELSE [fs |-> f,
            resp |-> [r EXCEPT !.status = 200,
                        !.repos = {Repository(id, repoName(gitRemote(f, id)),
                                              gitRemote(f, id), loaded.files)}]]

deleteRepo(f, id) ==
  LET r == [Response("delete") EXCEPT !.id = id]
  IN  IF ~fileExists(f, id) THEN [fs |-> f, resp |-> errNotFound(r)]
      ELSE IF Stuck(f, id) # {}
      THEN [fs |-> RemoveAll(f, id),
            resp |-> [r EXCEPT !.status = 500, !.msg = "Internal Server Error"]]
      ELSE [fs |-> RemoveAll(f, id), resp |-> [r EXCEPT !.status = 200]]

\* buildRepo and runRepo: the provider runs in the directory id and fails
\* when that is not a directory; what the provider writes is not modelled
buildRepo(f, id, providerOk) ==
  LET r == [Response("build") EXCEPT !.id = id]
  IN  IF ~fileExists(f, id) THEN [fs |-> f, resp |-> errNotFound(r)]
      ELSE IF ~providerOk \/ f[<<id>>].kind # "dir"
      THEN [fs |-> f, resp |-> [r EXCEPT !.status = 500]]
      ELSE [fs |-> f, resp |-> [r EXCEPT !.status = 200]]

runRepo(f, id, providerOk) ==
  LET r == [Response("run") EXCEPT !.id = id]
  IN  IF ~fileExists(f, id) THEN [fs |-> f, resp |-> errNotFound(r)]
      ELSE IF ~providerOk \/ f[<<id>>].kind # "dir"
      THEN [fs |-> f, resp |-> [r EXCEPT !.status = 500, !.msg = "Internal Server Error"]]
      ELSE [fs |-> f, resp |-> [r EXCEPT !.status = 200]]

\* filePath := fmt.Sprintf("%s/%s", id, path), as the kernel resolves it
FilePath(id, path) == Split(id \o <<"/">> \o path, "/")

getRepoFile(f, id, path) ==
  LET r == [Response("getfile") EXCEPT !.id = id, !.path = path]
      segs == FilePath(id, path)
      err == OpenErr(f, segs)
  IN  IF err # "ok"
      THEN IF IsNotExist(err) THEN [fs |-> f, resp |-> errNotFound(r)]
           ELSE [fs |-> f, resp |-> [r EXCEPT !.status = 500,
                                               !.msg = "Internal Server Error"]]
      ELSE [fs |-> f, resp |-> [r EXCEPT !.status = 200, !.data = f[segs].data]]

setRepoFile(f, id, path, body) ==
  LET r == [Response("setfile") EXCEPT !.id = id, !.path = path, !.body = body]
      segs == FilePath(id, path)
      err == OpenErr(f, segs)
  IN  IF err # "ok"
      THEN IF IsNotExist(err) THEN [fs |-> f, resp |-> errNotFound(r)]
           ELSE [fs |-> f, resp |-> [r EXCEPT !.status = 200]]
      ELSE [fs |-> WriteFile(f, segs, body), resp |-> [r EXCEPT !.status = 200]]

(***************************************************************************)
(* Actions: one request served from start to end                           *)
(***************************************************************************)

\* run holds the requests that are served step by step (see the last
\* specification); where every request is served in one step it is Idle
Idle == <<>>

Apply(res) == fs' = res.fs /\ resp' = res.resp /\ UNCHANGED run

CreateRepo ==
  \E okJson \in BOOLEAN, u \in Urls \cup {<<>>}, cloneOk \in BOOLEAN :
    \E l \in SomeLayouts(u) : Apply(createRepo(fs, okJson, u, cloneOk, l))

ListRepos == Apply(listRepos(fs))

GetRepo == \E id \in ReqIds : Apply(getRepo(fs, id))

DeleteRepo == \E id \in ReqIds : Apply(deleteRepo(fs, id))

BuildRepo == \E id \in ReqIds, ok \in BOOLEAN : Apply(buildRepo(fs, id, ok))

RunRepo == \E id \in ReqIds, ok \in BOOLEAN : Apply(runRepo(fs, id, ok))

GetRepoFile == \E id \in FileIds, path \in ReqPaths : Apply(getRepoFile(fs, id, path))

SetRepoFile ==
  \E id \in FileIds, path \in ReqPaths, body \in Bodies :
    Apply(setRepoFile(fs, id, path, body))

Init ==
  /\ fs \in {BaseFS} \cup {Install(BaseFS, Id1, l) : l \in SomeLayouts(Url1)}
  /\ resp = Response("none")
  /\ run = Idle

Next ==
  \/ CreateRepo
  \/ ListRepos
  \/ GetRepo
  \/ DeleteRepo
  \/ BuildRepo
  \/ RunRepo
  \/ GetRepoFile
  \/ SetRepoFile

Spec == Init /\ [][Next]_vars

(***************************************************************************)
(* The Tree Builder over every working copy: the repository of Url1 holds  *)
(* any working copy of the universe and is cloned, fetched and listed.     *)
(***************************************************************************)

CloneAny ==
  \E cloneOk \in BOOLEAN, l \in AllLayouts(Url1) :
    Apply(createRepo(fs, TRUE, Url1, cloneOk, l))

GetAny == \E id \in {Id1, nBare} : Apply(getRepo(fs, id))

ListAny == Apply(listRepos(fs))

DeleteAny == Apply(deleteRepo(fs, Id1))

InitTree ==
  /\ fs \in {BaseFS} \cup {Install(BaseFS, Id1, l) : l \in AllLayouts(Url1)}
  /\ resp = Response("none")
  /\ run = Idle

NextTree ==
  \/ CloneAny
  \/ GetAny
  \/ ListAny
  \/ DeleteAny

SpecTree == InitTree /\ [][NextTree]_vars

(***************************************************************************)
(* Overlapping requests.  Each request runs on its own goroutine and the   *)
(* handlers take no lock, so the system calls of requests interleave.      *)
(* run holds one file write (put), one tree build (get) on the repository  *)
(* Id1, and two creates (c1, c2) of the same URL Url2, each with its       *)
(* position pc.  The write is split where ioutil.WriteFile is: the open    *)
(* with O_TRUNC empties the file, the write then stores the body.  The     *)
(* build reads the size of the written file once, with the Lstat of the    *)
(* walk, so the walk is one step.  git clone fails when its destination    *)
(* exists and is not empty.                                                *)
(***************************************************************************)

Creators == {"c1", "c2"}

\* setRepoFile up to os.Open and file.Stat (lines 427-442)
PutOpen ==
  /\ run.put.pc = "start"
  /\ LET segs == FilePath(Id1, run.put.path)
         err == OpenErr(fs, segs)
     IN  run' = [run EXCEPT !.put =
                   IF err # "ok"
                   THEN [@ EXCEPT !.pc = "done",
                                  !.status = IF IsNotExist(err) THEN 404 ELSE 200]
                   ELSE [@ EXCEPT !.pc = "opened", !.old = StatSize(fs[segs])]]
  /\ UNCHANGED <<fs, resp>>

\* ioutil.WriteFile, the open with O_WRONLY|O_TRUNC (line 443)
PutTruncate ==
  /\ run.put.pc = "opened"
  /\ LET segs == FilePath(Id1, run.put.path) IN
     IF segs \in DOMAIN fs /\ WriteFileOk(fs, segs)
     THEN /\ fs' = [fs EXCEPT ![segs] = [@ EXCEPT !.data = <<>>]]
          /\ run' = [run EXCEPT !.put.pc = "truncated"]
     ELSE /\ fs' = fs
          /\ run' = [run EXCEPT !.put.pc = "done", !.put.status = 200]
  /\ UNCHANGED resp

\* ioutil.WriteFile, the write of the body, and the answer (lines 443-444)
PutWrite ==
  /\ run.put.pc = "truncated"
  /\ LET segs == FilePath(Id1, run.put.path) IN
     fs' = IF segs \in DOMAIN fs THEN [fs EXCEPT ![segs] = [@ EXCEPT !.data = run.put.body]]
           ELSE fs
  /\ run' = [run EXCEPT !.put.pc = "done", !.put.status = 200, !.put.wrote = TRUE]
  /\ UNCHANGED resp

\* getRepo up to repoName (lines 327-340)
GetCheck ==
  /\ run.get.pc = "start"
  /\ run' = [run EXCEPT !.get =
               IF ~fileExists(fs, Id1) THEN [@ EXCEPT !.pc = "done", !.status = 404]
               ELSE IF ~gitRemoteOk(fs, Id1) THEN [@ EXCEPT !.pc = "done", !.status = 500]
               ELSE [@ EXCEPT !.pc = "walking"]]
  /\ UNCHANGED <<fs, resp>>

\* loadRepoFiles and renderJSON of getRepo (lines 342-346)
GetWalk ==
  /\ run.get.pc = "walking"
  /\ LET loaded == loadRepoFiles(fs, Id1) IN
     run' = [run EXCEPT !.get =
               IF loaded.panic THEN [@ EXCEPT !.pc = "done", !.status = 500]
               ELSE [@ EXCEPT !.pc = "done", !.status = 200, !.files = loaded.files]]
  /\ UNCHANGED <<fs, resp>>

\* createRepo up to the fileExists test (lines 263-279)
CreateCheck(c) ==
  /\ run[c].pc = "start"
  /\ run' = [run EXCEPT ![c] =
               IF fileExists(fs, md5String(Url2))
               THEN [@ EXCEPT !.pc = "done", !.status = 400]
               ELSE [@ EXCEPT !.pc = "cloning"]]
  /\ UNCHANGED <<fs, resp>>

\* runCmd git clone, loadRepoFiles and renderJSON of createRepo (281-287);
\* down records that the provider failed for a reason of its own
CreateClone(c) ==
  /\ run[c].pc = "cloning"
  /\ \E cloneOk \in BOOLEAN, l \in SomeLayouts(Url2) :
       LET id == md5String(Url2) IN
       IF <<id>> \in DOMAIN fs
       THEN /\ fs' = fs
            /\ run' = [run EXCEPT ![c] = [@ EXCEPT !.pc = "done", !.status = 500,
                                                   !.cloned = TRUE]]
       ELSE IF ~cloneOk
       THEN /\ fs' = fs
            /\ run' = [run EXCEPT ![c] = [@ EXCEPT !.pc = "done", !.status = 500,
                                                   !.cloned = TRUE, !.down = TRUE]]
       ELSE /\ fs' = Install(fs, id, l)
            /\ run' = [run EXCEPT ![c] = [@ EXCEPT !.pc = "done", !.status = 200,
                                                   !.cloned = TRUE]]
  /\ UNCHANGED resp

Request(extra) ==
  [pc |-> "start", status |-> 0, cloned |-> FALSE, down |-> FALSE] @@ extra

InitConc ==
  /\ fs \in {Install(BaseFS, Id1, l) : l \in SomeLayouts(Url1)}
  /\ resp = Response("none")
  /\ \E path \in ReqPaths, body \in Bodies :
       run = [put |-> Request([path |-> path, body |-> body, old |-> 0,
                               wrote |-> FALSE]),
              get |-> Request([files |-> NilTree]),
              c1 |-> Request(<<>>),
              c2 |-> Request(<<>>)]

NextConc ==
  \/ PutOpen
  \/ PutTruncate
  \/ PutWrite
  \/ GetCheck
  \/ GetWalk
  \/ \E c \in Creators : CreateCheck(c)
  \/ \E c \in Creators : CreateClone(c)

SpecConc == InitConc /\ [][NextConc]_vars

(***************************************************************************)
(* Properties                                                              *)
(***************************************************************************)

Range(q) == {q[i] : i \in 1..Len(q)}

\* the Repository values of a 200 answer that carries trees
Built ==
  IF resp.op \in {"create", "get", "list"} /\ resp.status = 200
  THEN resp.repos ELSE {}

\* the entries of the directory id, by their path relative to it
Entries(f, id) == {Tail(q) : q \in {x \in DOMAIN f : x[1] = id}}

\* the entries the walk of id hands to the visit function
Walked(f, id) == {v.src : v \in Range(WalkEntry(f, <<id>>, id))}

\* those of them the visit function does not skip
Visited(f, id) ==
  {v.src : v \in {x \in Range(WalkEntry(f, <<id>>, id)) : ~IsSkipped(x.path)}}

HasGitSegment(rel) == \E i \in 1..Len(rel) : rel[i] = dotGit

IsRepoDir(f, id) == <<id>> \in DOMAIN f /\ f[<<id>>].kind = "dir"

\* C1: in every returned tree, the node of each visited, non-skipped entry
\* at relative path p1/.../pn is found from the root by the keys p1, ..., pn,
\* that is in the children of the node of its own directory.
C1_TreePlacement ==
  \A rp \in Built :
    \A q \in Visited(fs, rp.ID) :
      q \in DOMAIN rp.Files /\ rp.Files[q].src = q

\* C2: in every returned tree, every file and directory of the working copy
\* whose path has no segment equal to .git is described by exactly one node.
C2_TreeCompleteness ==
  \A rp \in Built :
    \A q \in Entries(fs, rp.ID) :
      ~HasGitSegment(q) =>
        Cardinality({p \in DOMAIN rp.Files : rp.Files[p].src = q}) = 1

\* C3: no node of a returned tree is derived from the .git directory or
\* from an entry below it, at any depth.
C3_MetadataExclusion ==
  \A rp \in Built :
    \A p \in DOMAIN rp.Files : ~HasGitSegment(rp.Files[p].src)

\* a tree was returned for a working copy with an entry inside .git
C3_Witness ==
  \E rp \in Built :
    /\ <<rp.ID, dotGit, nHead>> \in DOMAIN fs
    /\ Cardinality(DOMAIN rp.Files) > 1

\* the address repositories/{id}/files/{relativePath} of the claim, and the
\* same with the leading slash of the route
Address(id, rel) ==
  <<"r", "e", "p", "o", "s", "i", "t", "o", "r", "i", "e", "s", "/">> \o id
  \o <<"/", "f", "i", "l", "e", "s", "/">> \o Join(rel, "/")

\* C4 as stated: every File node carries the address
\* repositories/{id}/files/{relativePath} and Directory nodes carry none.
C4_AddressAsStated ==
  \A rp \in Built :
    \A p \in DOMAIN rp.Files :
      LET n == rp.Files[p] IN
      /\ n.Type = "file" => n.URL = Address(rp.ID, n.src)
      /\ n.Type = "dir" => n.URL = <<>>

\* C4 amended: every File node carries the address
\* /repositories/{id}/files/{relativePath}, with a leading slash, a function
\* of the repository id and the relative path only; Directory nodes carry
\* no address.
C4_AddressWithSlash ==
  \A rp \in Built :
    \A p \in DOMAIN rp.Files :
      LET n == rp.Files[p] IN
      /\ n.Type = "file" => n.URL = <<"/">> \o Address(rp.ID, n.src)
      /\ n.Type = "dir" => n.URL = <<>>

\* a returned tree holds the node of a file that lies in a subdirectory
C4_Witness ==
  \E rp \in Built :
    \E p \in DOMAIN rp.Files :
      rp.Files[p].Type = "file" /\ Len(rp.Files[p].src) >= 2

\* C5: a get, list or create that answers 200 returns trees whose walk
\* visited every entry of the working copy; a walk that could not read a
\* directory is answered with a failure.
C5_NoPartialTrees ==
  \A rp \in Built : Entries(fs, rp.ID) \subseteq Walked(fs, rp.ID)

\* C6: a create whose identifier names an existing directory of the storage
\* root answers with a 4xx status, does not run the clone provider and
\* leaves the filesystem unchanged.
C6_DuplicateCreate ==
  [][(/\ resp'.op = "create"
      /\ resp'.url \in Urls
      /\ IsRepoDir(fs, md5String(resp'.url)))
     => (/\ resp'.status \in 400..499
         /\ ~resp'.cloned
         /\ fs' = fs)]_vars

\* a create was refused because its directory was already there
C6_Witness ==
  /\ resp.op = "create" /\ resp.status = 400 /\ resp.msg = "repo already exists"
  /\ IsRepoDir(fs, resp.id)

\* C7: get, delete, build, run, file read and file write on an id that
\* names no repository directory of the storage root answer 404 and leave
\* the filesystem as it was.
C7_UnknownRepository ==
  [][(/\ resp'.op \in {"get", "delete", "build", "run", "getfile", "setfile"}
      /\ ~IsRepoDir(fs, resp'.id))
     => (resp'.status = 404 /\ fs' = fs)]_vars

\* a name of exactly 32 lowercase hexadecimal characters
IsIdentifier(name) == Len(name) = HexLen /\ \A i \in 1..Len(name) : name[i] \in HexChars

\* C8: a listing answers with one Repository for each directory of the
\* storage root whose name is exactly 32 lowercase hexadecimal characters,
\* and with nothing else.
C8_EnumerationExact ==
  (resp.op = "list" /\ resp.status = 200) =>
    {rp.ID : rp \in resp.repos}
      = {q[1] : q \in {x \in DOMAIN fs : Len(x) = 1 /\ fs[x].kind = "dir"
                                          /\ IsIdentifier(x[1])}}

\* C9: after a PUT of B to an existing file of a repository that answered
\* 200, a GET of the same path answers 200 with exactly B.
C9_ReadAfterWrite ==
  (/\ resp.op = "setfile" /\ resp.status = 200
   /\ IsRepoDir(fs, resp.id)
   /\ FilePath(resp.id, resp.path) \in DOMAIN fs
   /\ fs[FilePath(resp.id, resp.path)].kind = "file")
  => LET got == getRepoFile(fs, resp.id, resp.path).resp
     IN  got.status = 200 /\ got.data = resp.body

\* C10: a PUT to a path of a repository where no file exists answers 404
\* and does not create the file.
C10_PutNeedsTarget ==
  [][(/\ resp'.op = "setfile"
      /\ IsRepoDir(fs, resp'.id)
      /\ FilePath(resp'.id, resp'.path) \notin DOMAIN fs)
     => (/\ resp'.status = 404
         /\ FilePath(resp'.id, resp'.path) \notin DOMAIN fs')]_vars

\* C11: a PUT answers 200 only if the target file now holds the request
\* body, and a PUT whose open fails for another reason than non-existence
\* is answered with a 5xx status.
C11_IOFailureIs5xx ==
  resp.op = "setfile" =>
    LET segs == FilePath(resp.id, resp.path) IN
    /\ resp.status = 200 =>
         (segs \in DOMAIN fs /\ fs[segs].kind = "file" /\ fs[segs].data = resp.body)
    /\ OpenErr(fs, segs) \notin {"ok", "ENOENT"} => resp.status \in 500..599

\* the directories of the storage root named by an identifier
IdentifierDirs(f) ==
  {q[1] : q \in {x \in DOMAIN f : Len(x) = 1 /\ f[x].kind = "dir" /\ IsIdentifier(x[1])}}

\* C12: a listing made while the source URL of some directory with an
\* identifier name cannot be recovered is answered with an error (5xx) and
\* carries no Repository at all, not even those of the other directories.
C12_EnumerationAllOrNothing ==
  (resp.op = "list" /\ \E n \in IdentifierDirs(fs) : ~gitRemoteOk(fs, n))
    => (resp.status \in 500..599 /\ resp.repos = {})

\* a listing was made with one directory whose URL cannot be recovered
\* beside one whose URL can
C12_Witness ==
  /\ resp.op = "list"
  /\ \E n \in IdentifierDirs(fs) : ~gitRemoteOk(fs, n)
  /\ \E m \in Listed(fs) : gitRemoteOk(fs, m)

\* C14: the root of every tree returned by get, list or create is present,
\* is a Directory node and stands for the top-level directory of the
\* repository.
C14_RootInvariant ==
  \A rp \in Built :
    /\ rp.Files # NilTree
    /\ rp.Files[<<>>].Type = "dir"
    /\ rp.Files[<<>>].src = <<>>

\* C15: when a tree build overlaps a PUT that replaced a file of length m
\* by a body of length n, the size reported for the node of that file is m
\* or n.
C15_OldOrNewSize ==
  (run.put.wrote /\ run.get.pc = "done" /\ run.get.status = 200) =>
    \A p \in DOMAIN run.get.files :
      run.get.files[p].src = Tail(FilePath(Id1, run.put.path)) =>
        run.get.files[p].Size \in {run.put.old, Len(run.put.body)}

\* C16: of two overlapping creates of the same URL, with a clone provider
\* that does not fail for reasons of its own, at most one ran the provider,
\* at most one answered 200 and the other was answered with a 4xx status.
C16_ConcurrentCreate ==
  (/\ \A c \in Creators : run[c].pc = "done"
   /\ \A c \in Creators : ~run[c].down)
  => /\ Cardinality({c \in Creators : run[c].cloned}) <= 1
     /\ Cardinality({c \in Creators : run[c].status = 200}) <= 1
     /\ \E c \in Creators : run[c].status \in 400..499

\* C17: a DELETE whose id does not name a repository directory (a directory
\* of the storage root with an identifier name) removes nothing.
C17_DeleteScope ==
  [][(resp'.op = "delete" /\ resp'.id \notin IdentifierDirs(fs)) => fs' = fs]_vars
====
